---------------------------- MODULE Spec2Model ----------------------------
(***************************************************************************)
(* A state-machine model of samples/example1.cpp: main, the two            *)
(* WorkerThread threads it starts, the data_manager buffer owner and       *)
(* calculateTotal.                                                         *)
(*                                                                         *)
(* Granularity.  Every access to a global (Global_count, globalMutex) is   *)
(* a step of its own, so that interleavings of the two threads are         *)
(* explored between any two such accesses.  `Global_count += 1` is a load  *)
(* followed by a store.  Console output is kept per producer (the lines    *)
(* of each worker, of PrintData, of calculateTotal and of main's last      *)
(* line); the order in which lines of different threads reach the console  *)
(* is not recorded.                                                        *)
(***************************************************************************)
EXTENDS Integers, Sequences, FiniteSets, TLC

(***************************************************************************)
(* Program constants.                                                      *)
(***************************************************************************)
maxCount == 10

HighLoad == 50

LargeTotal == 100

DmSize == 10

NumsCount == 20

\* int is 32 bits wide
INT_MAX == 2147483647

INT_MIN == (0 - INT_MAX) - 1

(***************************************************************************)
(* Bounds of the model.                                                    *)
(***************************************************************************)
\* data_manager(sz) is explored for sz in MinSz..MaxSz
MaxSz == 10

Sizes == (0 - 1)..MaxSz

\* the load specification starts the counter at MaxStart or up to 4 below
MaxStart == 45

Workers == {1, 2}

\* values an indeterminate int may turn out to hold
IndetInts == {0, 7}

\* arguments calculateTotal is explored with
ArgVals == {INT_MIN, 0 - 1, 0, 1, 2, 3, 4, 25, 26, 30, INT_MAX}

VARIABLES
    pcMain,        \* main's position
    configs,       \* the Config objects alive: address -> value
    cfgRef,        \* per worker: the address of its parameter cfg
    dmPc,          \* position inside data_manager's code
    dmArg,         \* the constructor's argument sz
    dmSize,        \* data_manager::size
    rawBuffer,     \* the array rawBuffer points to: index -> cell
    dmI,           \* the loop variable i of the constructor / of PrintData
    vals,          \* the values PrintData has written, in order
    allocs,        \* how many new[] have succeeded
    frees,         \* how many delete[] have run
    nums,          \* main's vector nums
    nameToScore,   \* main's map
    callArgs,      \* arguments calculateTotal is called with
    total,         \* what calculateTotal returned (a sequence of 0 or 1 value)
    largeTotals,   \* the "Large total" lines written
    Global_count,
    globalMutex,   \* TRUE when the mutex is locked
    lock,          \* per worker: its lock_guard is alive
    pc,            \* per worker: position in WorkerThread
    i,             \* per worker: the loop variable
    reg,           \* per worker: the register used by Global_count += 1
    incs,          \* per worker: how many stores to Global_count it has made
    status,        \* per worker: the status lines written
    warned,        \* per worker: the iterations in which it wrote the warning
    finalPrint     \* the values written by main's last line

vars == <<pcMain, configs, cfgRef, dmPc, dmArg, dmSize, rawBuffer, dmI, vals,
          allocs, frees, nums, nameToScore, callArgs, total, largeTotals,
          Global_count, globalMutex, lock, pc, i, reg, incs, status, warned,
          finalPrint>>

mainVars == <<configs, cfgRef, nums, nameToScore, finalPrint>>

dmVars == <<dmPc, dmArg, dmSize, rawBuffer, dmI, vals, allocs, frees>>

calcVars == <<callArgs, total, largeTotals>>

workerVars == <<Global_count, globalMutex, lock, pc, i, reg, incs, status, warned>>

(***************************************************************************)
(* int and size_t arithmetic.                                              *)
(***************************************************************************)
\* x + y is above INT_MAX / below INT_MIN (decided without forming x + y)
OverflowsUp(x, y) == y > 0 /\ x > INT_MAX - y

OverflowsDown(x, y) == y < 0 /\ x < INT_MIN - y

\* x + y modulo 2^32, as the two's complement adder gives it
WrapAdd(x, y) ==
    IF OverflowsUp(x, y) THEN (x + INT_MIN) + (y + INT_MIN)
    ELSE IF OverflowsDown(x, y) THEN (x - INT_MIN) + (y - INT_MIN)
    ELSE x + y

\* The conversion of an int to size_t (64 bits): x itself when x >= 0, and
\* 2^64 + x when x < 0, which is kept as the pair (neg, x).
SizeT(x) == [neg |-> x < 0, v |-> x]

\* a < b for two size_t values; 2^64 + x, x < 0 an int, is above every
\* converted non-negative int
SizeLess(a, b) == IF a.neg = b.neg THEN a.v < b.v ELSE b.neg

\* An evaluation in progress: either it has trapped, or it holds the value v.
Value(x) == [trap |-> FALSE, v |-> x]

Trapped == [trap |-> TRUE, v |-> 0]

\* e + y in int.  Signed overflow is undefined: the builds either wrap
\* (two's complement add) or trap (-ftrapv, -fsanitize-trap).
AddInt(e, y) ==
    IF e.trap THEN {e}
    ELSE IF OverflowsUp(e.v, y) \/ OverflowsDown(e.v, y)
      THEN {Value(WrapAdd(e.v, y)), Trapped}
      ELSE {Value(e.v + y)}

(***************************************************************************)
(* calculateTotal: the set of outcomes of a call.  An outcome is a trap,   *)
(* or the returned value with the "Large total" lines written.             *)
(***************************************************************************)
\* the threshold test taken as "at least"
IsLargeInclusive(Result) == Result >= LargeTotal

IsLarge(Result) == Result > LargeTotal

Sum4(A, B, C, D) ==
    UNION { UNION { AddInt(abc, D) : abc \in AddInt(ab, C) } : ab \in AddInt(Value(A), B) }

calculateTotal(A, B, C, D) ==
    { IF r.trap
        THEN [trap |-> TRUE, ret |-> 0, report |-> << >>]
        ELSE [trap |-> FALSE, ret |-> r.v,
              report |-> IF IsLarge(r.v) THEN <<r.v>> ELSE << >>]
      : r \in Sum4(A, B, C, D) }

\* A call of calculateTotal by whoever is at `from`; it returns to `to`.
CallCalculateTotal(A, B, C, D, from, to) ==
    /\ pcMain = from
    /\ callArgs' = <<A, B, C, D>>
    /\ \E o \in calculateTotal(A, B, C, D) :
          IF o.trap
            THEN /\ pcMain' = "aborted"
                 /\ UNCHANGED <<total, largeTotals>>
            ELSE /\ pcMain' = to
                 /\ total' = <<o.ret>>
                 /\ largeTotals' = largeTotals \o o.report
    /\ UNCHANGED <<mainVars, dmVars, workerVars>>

(***************************************************************************)
(* data_manager.                                                           *)
(***************************************************************************)
\* A cell of a new int[]: its value is indeterminate until it is assigned.
Indeterminate == [init |-> FALSE, val |-> 0]

Cell(x) == [init |-> TRUE, val |-> x]

\* What reading rawBuffer[k] can give.  Reading an indeterminate cell, or
\* past the end of the array, is undefined: any int.
ReadCell(k) ==
    IF k \in DOMAIN rawBuffer /\ rawBuffer[k].init
      THEN {rawBuffer[k].val}
      ELSE IndetInts

InitValue(k) == k * 2

\* the constructor's loop stopping one element early
CtorMoreShort == dmI < dmArg - 1

CtorMore == dmI < dmArg

PrintMore == SizeLess(SizeT(dmI), dmSize)

\* size = sz;
CtorSize ==
    /\ dmPc = "size"
    /\ dmSize' = SizeT(dmArg)
    /\ dmPc' = "new"
    /\ UNCHANGED <<pcMain, dmArg, rawBuffer, dmI, vals, allocs, frees,
                   mainVars, calcVars, workerVars>>

\* rawBuffer = new int[sz];  int i = 0
\* A negative sz makes new[] throw std::bad_array_new_length, which nothing
\* catches.  An allocation of sz >= 0 ints is taken to succeed.
CtorNew ==
    /\ dmPc = "new"
    /\ IF dmArg < 0
         THEN /\ dmPc' = "threw"
              /\ pcMain' = "aborted"
              /\ UNCHANGED <<rawBuffer, allocs, dmI>>
         ELSE /\ dmPc' = "fill"
              /\ rawBuffer' = [k \in 0..(dmArg - 1) |-> Indeterminate]
              /\ allocs' = allocs + 1
              /\ dmI' = 0
              /\ UNCHANGED pcMain
    /\ UNCHANGED <<dmArg, dmSize, vals, frees, mainVars, calcVars, workerVars>>

\* i < sz, rawBuffer[i] = i * 2, i++
CtorFill ==
    /\ dmPc = "fill"
    /\ CtorMore
    /\ rawBuffer' = [rawBuffer EXCEPT ![dmI] = Cell(InitValue(dmI))]
    /\ dmI' = dmI + 1
    /\ UNCHANGED <<pcMain, dmPc, dmArg, dmSize, vals, allocs, frees,
                   mainVars, calcVars, workerVars>>

\* the constructor's loop ends and the constructor returns
CtorReturn ==
    /\ dmPc = "fill"
    /\ ~CtorMore
    /\ dmPc' = "constructed"
    /\ pcMain' = IF pcMain = "dmRet" THEN "printData" ELSE pcMain
    /\ UNCHANGED <<dmArg, dmSize, rawBuffer, dmI, vals, allocs, frees,
                   mainVars, calcVars, workerVars>>

\* dm.PrintData();  int i = 0
CallPrintData ==
    /\ pcMain \in {"printData", "harness"}
    /\ dmPc = "constructed"
    /\ dmPc' = "print"
    /\ dmI' = 0
    /\ pcMain' = IF pcMain = "printData" THEN "printRet" ELSE pcMain
    /\ UNCHANGED <<dmArg, dmSize, rawBuffer, vals, allocs, frees,
                   mainVars, calcVars, workerVars>>

\* i < size, cout << "Val: " << rawBuffer[i], i++
PrintLoop ==
    /\ dmPc = "print"
    /\ PrintMore
    /\ \E v \in ReadCell(dmI) : vals' = Append(vals, v)
    /\ dmI' = dmI + 1
    /\ UNCHANGED <<pcMain, dmPc, dmArg, dmSize, rawBuffer, allocs, frees,
                   mainVars, calcVars, workerVars>>

PrintReturn ==
    /\ dmPc = "print"
    /\ ~PrintMore
    /\ dmPc' = "printed"
    /\ pcMain' = IF pcMain = "printRet" THEN "nums" ELSE pcMain
    /\ UNCHANGED <<dmArg, dmSize, rawBuffer, dmI, vals, allocs, frees,
                   mainVars, calcVars, workerVars>>

(***************************************************************************)
(* main.                                                                   *)
(***************************************************************************)
MainCfg == "main.cfg"

\* the parameter declared Config& and bound to main's cfg
ParamAddrByRef(w) == MainCfg

\* The object a worker's by-value parameter cfg is: one of its own,
\* copy-constructed from main's cfg when the thread is created.
ParamAddr(w) == IF w = 1 THEN "t1.cfg" ELSE "t2.cfg"

SpawnPc(w) == IF w = 1 THEN "spawn1" ELSE "spawn2"

JoinPc(w) == IF w = 1 THEN "join1" ELSE "join2"

AfterSpawn(w) == IF w = 1 THEN SpawnPc(2) ELSE JoinPc(1)

AfterJoin(w) == IF w = 1 THEN JoinPc(2) ELSE "print"

\* Config cfg;  Port and useSSL are indeterminate, HostName is empty
MainDeclCfg ==
    /\ pcMain = "start"
    /\ \E p \in IndetInts, b \in BOOLEAN :
          configs' = (MainCfg :> [Port |-> p, HostName |-> "", useSSL |-> b])
    /\ pcMain' = "port"
    /\ UNCHANGED <<cfgRef, nums, nameToScore, finalPrint, dmVars, calcVars, workerVars>>

\* cfg.Port = 8080;
MainSetPort ==
    /\ pcMain = "port"
    /\ configs' = [configs EXCEPT ![MainCfg].Port = 8080]
    /\ pcMain' = "host"
    /\ UNCHANGED <<cfgRef, nums, nameToScore, finalPrint, dmVars, calcVars, workerVars>>

\* cfg.HostName = "localhost";
MainSetHost ==
    /\ pcMain = "host"
    /\ configs' = [configs EXCEPT ![MainCfg].HostName = "localhost"]
    /\ pcMain' = "ssl"
    /\ UNCHANGED <<cfgRef, nums, nameToScore, finalPrint, dmVars, calcVars, workerVars>>

\* cfg.useSSL = true;
MainSetSSL ==
    /\ pcMain = "ssl"
    /\ configs' = [configs EXCEPT ![MainCfg].useSSL = TRUE]
    /\ pcMain' = "dm"
    /\ UNCHANGED <<cfgRef, nums, nameToScore, finalPrint, dmVars, calcVars, workerVars>>

\* data_manager dm(10);
MainConstructDm ==
    /\ pcMain = "dm"
    /\ dmPc = "none"
    /\ dmArg' = DmSize
    /\ dmPc' = "size"
    /\ pcMain' = "dmRet"
    /\ UNCHANGED <<dmSize, rawBuffer, dmI, vals, allocs, frees,
                   mainVars, calcVars, workerVars>>

\* the loop nums.push_back(i * 3), i = 0..19
MainFillNums ==
    /\ pcMain = "nums"
    /\ nums' = [k \in 1..NumsCount |-> (k - 1) * 3]
    /\ pcMain' = "map"
    /\ UNCHANGED <<configs, cfgRef, nameToScore, finalPrint, dmVars, calcVars, workerVars>>

\* nameToScore["alice"] = 90;  nameToScore["bob"] = 75;
MainFillMap ==
    /\ pcMain = "map"
    /\ nameToScore' = ("alice" :> 90) @@ ("bob" :> 75)
    /\ pcMain' = "calc"
    /\ UNCHANGED <<configs, cfgRef, nums, finalPrint, dmVars, calcVars, workerVars>>

\* int total = calculateTotal(1, 2, 3, 4);
MainCalc == CallCalculateTotal(1, 2, 3, 4, "calc", SpawnPc(1))

\* std::thread tw(WorkerThread, w, std::ref(dm), cfg);  the thread starts
\* with its own copy of cfg and int i = 0
Spawn(w) ==
    /\ pcMain = SpawnPc(w)
    /\ pc[w] = "idle"
    /\ configs' = (ParamAddr(w) :> configs[MainCfg]) @@ configs
    /\ cfgRef' = [cfgRef EXCEPT ![w] = ParamAddr(w)]
    /\ pc' = [pc EXCEPT ![w] = "check"]
    /\ i' = [i EXCEPT ![w] = 0]
    /\ pcMain' = AfterSpawn(w)
    /\ UNCHANGED <<nums, nameToScore, finalPrint, dmVars, calcVars,
                   Global_count, globalMutex, lock, reg, incs, status, warned>>

\* tw.join();
Join(w) ==
    /\ pcMain = JoinPc(w)
    /\ pc[w] = "done"
    /\ pcMain' = AfterJoin(w)
    /\ UNCHANGED <<mainVars, dmVars, calcVars, workerVars>>

\* cout << "Global_count = " << Global_count
MainPrintCount ==
    /\ pcMain = "print"
    /\ finalPrint' = Append(finalPrint, Global_count)
    /\ pcMain' = "return"
    /\ UNCHANGED <<configs, cfgRef, nums, nameToScore, dmVars, calcVars, workerVars>>

\* return 0;  main's locals end.  data_manager has no destructor and main
\* has no delete[], so nothing is released.
MainReturn ==
    /\ pcMain = "return"
    /\ configs' = [a \in DOMAIN configs \ {MainCfg} |-> configs[a]]
    /\ pcMain' = "done"
    /\ UNCHANGED <<cfgRef, nums, nameToScore, finalPrint, dmVars, calcVars, workerVars>>

(***************************************************************************)
(* WorkerThread.                                                           *)
(***************************************************************************)
\* the loop running one iteration too many
LoopMoreInclusive(w) == i[w] <= maxCount

LoopMore(w) == i[w] < maxCount

\* the body entered without waiting for the mutex
MutexIgnored == TRUE

MutexFree == ~globalMutex

\* the threshold test taken as "at least"
IsHighLoadInclusive(c) == c >= HighLoad

IsHighLoad(c) == c > HighLoad

\* i < maxCount holds: the body starts
LoopEnter(w) ==
    /\ pc[w] = "check"
    /\ LoopMore(w)
    /\ pc' = [pc EXCEPT ![w] = "lock"]
    /\ UNCHANGED <<pcMain, mainVars, dmVars, calcVars,
                   Global_count, globalMutex, lock, i, reg, incs, status, warned>>

\* i < maxCount fails: the function returns and its parameter cfg ends
WorkerReturn(w) ==
    /\ pc[w] = "check"
    /\ ~LoopMore(w)
    /\ pc' = [pc EXCEPT ![w] = "done"]
    /\ configs' = [a \in DOMAIN configs \ {cfgRef[w]} |-> configs[a]]
    /\ cfgRef' = [cfgRef EXCEPT ![w] = "none"]
    /\ UNCHANGED <<pcMain, nums, nameToScore, finalPrint, dmVars, calcVars,
                   Global_count, globalMutex, lock, i, reg, incs, status, warned>>

\* std::lock_guard<std::mutex> lock(globalMutex);  blocks while it is locked
Acquire(w) ==
    /\ pc[w] = "lock"
    /\ MutexFree
    /\ globalMutex' = TRUE
    /\ lock' = [lock EXCEPT ![w] = TRUE]
    /\ pc' = [pc EXCEPT ![w] = "load"]
    /\ UNCHANGED <<pcMain, mainVars, dmVars, calcVars,
                   Global_count, i, reg, incs, status, warned>>

\* Global_count += 1, the load
Load(w) ==
    /\ pc[w] = "load"
    /\ reg' = [reg EXCEPT ![w] = Global_count]
    /\ pc' = [pc EXCEPT ![w] = "store"]
    /\ UNCHANGED <<pcMain, mainVars, dmVars, calcVars,
                   Global_count, globalMutex, lock, i, incs, status, warned>>

\* Global_count += 1, the add and the store
Store(w) ==
    /\ pc[w] = "store"
    /\ reg' = [reg EXCEPT ![w] = reg[w] + 1]
    /\ Global_count' = reg[w] + 1
    /\ incs' = [incs EXCEPT ![w] = incs[w] + 1]
    /\ pc' = [pc EXCEPT ![w] = "print"]
    /\ UNCHANGED <<pcMain, mainVars, dmVars, calcVars,
                   globalMutex, lock, i, status, warned>>

\* cout << "Worker " << ID << " iteration " << i << " host=" ... << endl
PrintStatus(w) ==
    /\ pc[w] = "print"
    /\ status' = [status EXCEPT ![w] =
                     Append(@, [ID |-> w, i |-> i[w],
                                HostName |-> configs[cfgRef[w]].HostName,
                                Port |-> configs[cfgRef[w]].Port,
                                useSSL |-> configs[cfgRef[w]].useSSL])]
    /\ pc' = [pc EXCEPT ![w] = "test"]
    /\ UNCHANGED <<pcMain, mainVars, dmVars, calcVars,
                   Global_count, globalMutex, lock, i, reg, incs, warned>>

\* if (Global_count > 50) cout << "High load warning!" << endl;
HighLoadCheck(w) ==
    /\ pc[w] = "test"
    /\ warned' = [warned EXCEPT ![w] =
                     IF IsHighLoad(Global_count) THEN Append(@, i[w]) ELSE @]
    /\ pc' = [pc EXCEPT ![w] = "unlock"]
    /\ UNCHANGED <<pcMain, mainVars, dmVars, calcVars,
                   Global_count, globalMutex, lock, i, reg, incs, status>>

\* the guard going out of scope without unlocking the mutex
ReleaseKeepsMutex(w) ==
    /\ pc[w] = "unlock"
    /\ lock' = [lock EXCEPT ![w] = FALSE]
    /\ pc' = [pc EXCEPT ![w] = "next"]
    /\ UNCHANGED <<pcMain, mainVars, dmVars, calcVars,
                   Global_count, globalMutex, i, reg, incs, status, warned>>

\* the end of the body: lock's destructor unlocks the mutex
Release(w) ==
    /\ pc[w] = "unlock"
    /\ globalMutex' = FALSE
    /\ lock' = [lock EXCEPT ![w] = FALSE]
    /\ pc' = [pc EXCEPT ![w] = "next"]
    /\ UNCHANGED <<pcMain, mainVars, dmVars, calcVars,
                   Global_count, i, reg, incs, status, warned>>

\* i++
Advance(w) ==
    /\ pc[w] = "next"
    /\ i' = [i EXCEPT ![w] = i[w] + 1]
    /\ pc' = [pc EXCEPT ![w] = "check"]
    /\ UNCHANGED <<pcMain, mainVars, dmVars, calcVars,
                   Global_count, globalMutex, lock, reg, incs, status, warned>>

(***************************************************************************)
(* Specifications.                                                         *)
(***************************************************************************)
\* The state at program start up to the five values given.
StartState(pm, dp, sz, count, args) ==
    /\ pcMain = pm
    /\ configs = << >>
    /\ cfgRef = [w \in Workers |-> "none"]
    /\ dmPc = dp
    /\ dmArg = sz
    /\ dmSize = SizeT(0)
    /\ rawBuffer = << >>
    /\ dmI = 0
    /\ vals = << >>
    /\ allocs = 0
    /\ frees = 0
    /\ nums = << >>
    /\ nameToScore = << >>
    /\ callArgs = args
    /\ total = << >>
    /\ largeTotals = << >>
    /\ Global_count = count
    /\ globalMutex = FALSE
    /\ lock = [w \in Workers |-> FALSE]
    /\ pc = [w \in Workers |-> "idle"]
    /\ i = [w \in Workers |-> 0]
    /\ reg = [w \in Workers |-> 0]
    /\ incs = [w \in Workers |-> 0]
    /\ status = [w \in Workers |-> << >>]
    /\ warned = [w \in Workers |-> << >>]
    /\ finalPrint = << >>

\* The program: int Global_count = 0, main about to run.
Init == StartState("start", "none", 0, 0, << >>)

Main ==
    \/ MainDeclCfg
    \/ MainSetPort
    \/ MainSetHost
    \/ MainSetSSL
    \/ MainConstructDm
    \/ CtorSize
    \/ CtorNew
    \/ CtorFill
    \/ CtorReturn
    \/ CallPrintData
    \/ PrintLoop
    \/ PrintReturn
    \/ MainFillNums
    \/ MainFillMap
    \/ MainCalc
    \/ \E w \in Workers : Spawn(w)
    \/ \E w \in Workers : Join(w)
    \/ MainPrintCount
    \/ MainReturn

Worker(w) ==
    \/ LoopEnter(w)
    \/ WorkerReturn(w)
    \/ Acquire(w)
    \/ Load(w)
    \/ Store(w)
    \/ PrintStatus(w)
    \/ HighLoadCheck(w)
    \/ Release(w)
    \/ Advance(w)

Next == Main \/ \E w \in Workers : Worker(w)

Spec == Init /\ [][Next]_vars

\* The scheduler lets every thread that can run take a step eventually.
FairSpec == Spec /\ WF_vars(Main) /\ \A w \in Workers : WF_vars(Worker(w))

\* The program with the counter already advanced when the workers start
\* (as when the threads are started again in the same process): the
\* threshold HighLoad is crossed while they run.
InitLoad == \E c \in (MaxStart - 4)..MaxStart : StartState("start", "none", 0, c, << >>)

SpecLoad == InitLoad /\ [][Next]_vars

\* data_manager(sz) followed by PrintData(), for every sz of Sizes.
InitBuf == \E sz \in Sizes : StartState("harness", "size", sz, 0, << >>)

NextBuf ==
    \/ CtorSize
    \/ CtorNew
    \/ CtorFill
    \/ CtorReturn
    \/ CallPrintData
    \/ PrintLoop
    \/ PrintReturn

SpecBuf == InitBuf /\ [][NextBuf]_vars

\* One call calculateTotal(A, B, C, D), for all arguments of ArgVals.
InitCalc ==
    \E A \in ArgVals, B \in ArgVals, C \in ArgVals, D \in ArgVals :
        StartState("harness", "none", 0, 0, <<A, B, C, D>>)

NextCalc ==
    CallCalculateTotal(callArgs[1], callArgs[2], callArgs[3], callArgs[4],
                       "harness", "returned")

SpecCalc == InitCalc /\ [][NextCalc]_vars

(***************************************************************************)
(* Properties.                                                             *)
(***************************************************************************)
InBody == {"load", "store", "print", "test", "unlock"}

Incremented == {"print", "test", "unlock", "next"}

\* the iterations of w whose increment has been made
IterationsCounted(w) == i[w] + (IF pc[w] \in Incremented THEN 1 ELSE 0)

\* the status lines of w once it has written them for iterations 0..n-1
StatusLines(w, n) ==
    [k \in 1..n |-> [ID |-> w, i |-> k - 1, HostName |-> "localhost",
                     Port |-> 8080, useSSL |-> TRUE]]

InitialisedCfg == [Port |-> 8080, HostName |-> "localhost", useSSL |-> TRUE]

BothDone == \A w \in Workers : pc[w] = "done"

\* C1: with Global_count starting at 0 and two workers of maxCount = 10
\* iterations each, the counter is exactly 20 once both workers have
\* finished, and 20 is the value main prints after the joins, whatever the
\* interleaving was; no store of a worker is lost (the counter is the number
\* of stores made so far).
C1_FinalCountIsTwenty ==
    /\ Global_count = incs[1] + incs[2]
    /\ BothDone => Global_count = 20
    /\ pcMain \in {"print", "return", "done"} => Global_count = 20
    /\ finalPrint \in {<< >>, <<20>>}
    /\ pcMain \in {"return", "done"} => finalPrint = <<20>>

C1_Witness == pcMain = "return" /\ BothDone /\ finalPrint = <<20>>

\* C2: at most one worker holds globalMutex at any time, every step that
\* changes Global_count is the store of a worker holding the mutex, and the
\* load and the store of `Global_count += 1` (and the read of the threshold
\* test) only happen while the worker holds it.
C2_MutualExclusion ==
    /\ [](/\ Cardinality({w \in Workers : lock[w]}) <= 1
          /\ \A w \in Workers : lock[w] => globalMutex
          /\ \A w \in Workers : pc[w] \in InBody => lock[w])
    /\ [][Global_count' # Global_count =>
            \E w \in Workers : /\ lock[w]
                               /\ pc[w] = "store"
                               /\ pc'[w] = "print"]_vars

C2_Witness == pc[1] = "store" /\ lock[1] /\ pc[2] = "lock" /\ Global_count > 0

\* C3: for every sz > 0, data_manager(sz) leaves exactly sz cells, cell i
\* assigned i * 2, every cell assigned before PrintData reads any, and
\* PrintData writes exactly the sz values 0, 2, ..., 2 * (sz - 1) in index
\* order.
C3_BufferContents ==
    dmArg > 0 =>
      /\ dmPc # "threw"
      /\ dmPc \in {"constructed", "print", "printed"} =>
            /\ DOMAIN rawBuffer = 0..(dmArg - 1)
            /\ \A k \in DOMAIN rawBuffer :
                  rawBuffer[k].init /\ rawBuffer[k].val = k * 2
      /\ dmPc = "print" => vals = [k \in 1..dmI |-> (k - 1) * 2]
      /\ dmPc = "printed" => vals = [k \in 1..dmArg |-> (k - 1) * 2]
      /\ dmPc \notin {"print", "printed"} => vals = << >>

C3_Witness == dmPc = "printed" /\ dmArg = 3 /\ vals = <<0, 2, 4>>

\* no signed overflow occurs in evaluating ((A + B) + C) + D
NoOverflow(A, B, C, D) ==
    /\ ~OverflowsUp(A, B) /\ ~OverflowsDown(A, B)
    /\ ~OverflowsUp(A + B, C) /\ ~OverflowsDown(A + B, C)
    /\ ~OverflowsUp(A + B + C, D) /\ ~OverflowsDown(A + B + C, D)

CalcReturned(A, B, C, D, ret, report) ==
    /\ callArgs = <<A, B, C, D>> /\ pcMain # "harness"
    => pcMain = "returned" /\ total = <<ret>> /\ largeTotals = report

\* C4: when the sum A + B + C + D is computed without overflow,
\* calculateTotal returns it and writes the "Large total" line exactly when
\* the sum is above 100; (1,2,3,4) gives 10 and no line, (30,30,30,30) gives
\* 120 and the line, a sum of exactly 100 gives no line.
C4_SumAndReport ==
    /\ pcMain # "harness"
       /\ NoOverflow(callArgs[1], callArgs[2], callArgs[3], callArgs[4]) =>
          LET sum == callArgs[1] + callArgs[2] + callArgs[3] + callArgs[4]
          IN  /\ pcMain = "returned"
              /\ total = <<sum>>
              /\ largeTotals = IF sum > 100 THEN <<sum>> ELSE << >>
    /\ CalcReturned(1, 2, 3, 4, 10, << >>)
    /\ CalcReturned(30, 30, 30, 30, 120, <<120>>)
    /\ CalcReturned(25, 25, 25, 25, 100, << >>)

C4_Witness ==
    /\ pcMain = "returned"
    /\ callArgs = <<30, 30, 30, 30>>
    /\ total = <<120>>
    /\ largeTotals = <<120>>

\* C5: the rawBuffer allocation of every data_manager constructed has been
\* released exactly once by the time main ends: never zero times, never
\* twice.
C5_ReleasedExactlyOnce ==
    /\ frees <= allocs
    /\ pcMain = "done" => frees = allocs

\* C6: each worker's cfg is an object of its own, distinct from the other
\* worker's and from main's cfg, holding the values main's cfg had when the
\* thread was created; no step of a worker changes main's cfg or the other
\* worker's copy; main's cfg is Port 8080, HostName "localhost", useSSL true
\* from its initialisation to the end of main.
C6_ConfigCopies ==
    /\ [](/\ \A w \in Workers : cfgRef[w] # "none" =>
                /\ cfgRef[w] # MainCfg
                /\ cfgRef[w] \in DOMAIN configs
                /\ configs[cfgRef[w]] = InitialisedCfg
          /\ \A v, w \in Workers :
                v # w /\ cfgRef[v] # "none" => cfgRef[v] # cfgRef[w]
          /\ pcMain \notin {"start", "port", "host", "ssl", "done"} =>
                MainCfg \in DOMAIN configs /\ configs[MainCfg] = InitialisedCfg
          /\ \A w \in Workers : status[w] = StatusLines(w, Len(status[w])))
    /\ [][\A w \in Workers :
            pc[w] # "idle" /\ pc'[w] # pc[w] =>
               \A a \in DOMAIN configs \ {cfgRef[w]} :
                  a \in DOMAIN configs' /\ configs'[a] = configs[a]]_vars

C6_Witness ==
    /\ cfgRef[1] = "t1.cfg" /\ cfgRef[2] = "t2.cfg"
    /\ status[1] # << >> /\ status[2] # << >>
    /\ MainCfg \in DOMAIN configs

\* C7: a worker goes idle -> running -> done; its i takes 0, 1, ..., 9 in
\* order, rising by one at a time; each iteration makes exactly one store
\* that adds 1 to Global_count and writes exactly one status line, carrying
\* that iteration's index; a worker that is done has made exactly 10
\* iterations and makes no further increment.
C7_WorkerIterations ==
    /\ [](\A w \in Workers :
            /\ i[w] \in 0..maxCount
            /\ pc[w] \in InBody \cup {"lock", "next"} => i[w] \in 0..9
            /\ incs[w] = IterationsCounted(w)
            /\ status[w] =
                 StatusLines(w, i[w] + (IF pc[w] \in {"test", "unlock", "next"}
                                          THEN 1 ELSE 0))
            /\ pc[w] = "done" =>
                 i[w] = 10 /\ incs[w] = 10 /\ Len(status[w]) = 10)
    /\ [][\A w \in Workers :
            /\ pc[w] = "done" => pc'[w] = "done" /\ incs'[w] = incs[w]
            /\ pc'[w] = "idle" => pc[w] = "idle"
            /\ i'[w] \in {i[w], i[w] + 1}
            /\ incs'[w] \in {incs[w], incs[w] + 1}
            /\ incs'[w] # incs[w] => Global_count' = Global_count + 1]_vars

C7_Witness ==
    /\ pc[1] = "done" /\ incs[1] = 10 /\ Len(status[1]) = 10
    /\ pc[2] = "test" /\ i[2] = 4

\* C8: under fair scheduling main ends, after both workers are done; a
\* worker holds the mutex only inside an iteration's body, so the mutex is
\* free between iterations; the workers are started only after cfg and the
\* buffer are initialised; main passes the joins, prints the counter and
\* exits only when both workers are done.
C8_Termination ==
    /\ <>(pcMain = "done" /\ BothDone /\ ~globalMutex)
    /\ [](/\ \A w \in Workers : lock[w] => pc[w] \in InBody
          /\ globalMutex = (\E w \in Workers : lock[w])
          /\ \A w \in Workers : pc[w] # "idle" =>
                /\ dmPc = "printed"
                /\ \A k \in 0..(DmSize - 1) : rawBuffer[k].init
                /\ pcMain # "done" => configs[MainCfg] = InitialisedCfg
          /\ pcMain \in {"print", "return", "done"} => BothDone
          /\ finalPrint # << >> => BothDone)

C8_Witness == pcMain = "done" /\ BothDone /\ ~globalMutex /\ finalPrint # << >>

\* C9: a worker writes the warning in an iteration exactly when the value
\* its own store produced in that iteration is above 50; from its store to
\* its threshold test Global_count is that value, no other increment falls
\* in between.
C9_WarningIffAbove ==
    /\ [](\A w \in Workers :
            pc[w] \in {"print", "test"} => Global_count = reg[w])
    /\ [][\A w \in Workers :
            pc[w] = "test" /\ pc'[w] # "test" =>
               warned'[w] = IF reg[w] > 50 THEN Append(warned[w], i[w])
                                           ELSE warned[w]]_vars
    /\ [][\A w \in Workers :
            warned'[w] # warned[w] => pc[w] = "test"]_vars

C9_Witness ==
    /\ pc[1] = "unlock" /\ reg[1] = 51 /\ warned[1] = <<i[1]>>
    /\ i[2] > 0 /\ warned[2] = << >>

\* C10: in the program as main wires it, Global_count is the number of
\* iterations, of the two workers together, whose increment has been made
\* (i[1] + i[2] whenever no worker is inside an iteration); it changes only
\* by +1; it stays in 0..20; so no worker ever writes the warning.
C10_CountInvariant ==
    /\ [](/\ Global_count = IterationsCounted(1) + IterationsCounted(2)
          /\ (\A w \in Workers : pc[w] \in {"idle", "check", "lock", "done"})
                => Global_count = i[1] + i[2]
          /\ Global_count \in 0..20
          /\ \A w \in Workers : warned[w] = << >>)
    /\ [][Global_count' # Global_count => Global_count' = Global_count + 1]_vars

C10_Witness == Global_count = 20 /\ BothDone /\ \A w \in Workers : warned[w] = << >>

=============================================================================
